---- MODULE Spec2Model ----
(***************************************************************************)
(* A model of PDFGenerator (src/utils.py): the text-to-story pipeline that *)
(* turns a plain-text Product Requirements Document into an ordered list   *)
(* of flowables.                                                           *)
(*                                                                         *)
(* Text is a sequence of tokens.  Every character the regular expressions  *)
(* of the source look at is a token of its own (digits, ".", ":", "|",     *)
(* "-", "*", " ", "\n", "F", "R", "I", "D"); a literal the source only     *)
(* ever compares as a whole (a canonical section title, the phrase         *)
(* "Product Requirements Document", a word of prose) is one token.         *)
(***************************************************************************)
EXTENDS Integers, Sequences, FiniteSets, TLC

VARIABLES content, story, pc, sections, section_num, project_name, rendered, calls

vars == <<content, story, pc, sections, section_num, project_name, rendered, calls>>

(***************************************************************************)
(* Strings                                                                 *)
(***************************************************************************)
\* the characters Python's \s and str.strip() treat as whitespace
WS == {" ", "\n"}

Min(S) == CHOOSE x \in S : \A y \in S : x <= y

Max(S) == CHOOSE x \in S : \A y \in S : x >= y

\* s[p:] (1-based, empty when p is past the end)
From(s, p) == SubSeq(s, p, Len(s))

\* s.startswith(lit, p-1)
MatchLit(s, p, lit) ==
    /\ p >= 1
    /\ p + Len(lit) - 1 <= Len(s)
    /\ SubSeq(s, p, p + Len(lit) - 1) = lit

\* the position just after the longest run of whitespace starting at p
\* (a greedy \s* or \s+)
WsEnd(s, p) ==
    Min({q \in p..(Len(s) + 1) : q = Len(s) + 1 \/ s[q] \notin WS})

\* str.strip()
Strip(s) ==
    LET keep == {k \in 1..Len(s) : s[k] \notin WS}
    IN  IF keep = {} THEN <<>> ELSE SubSeq(s, Min(keep), Max(keep))

\* str.split(sep) for a one-character separator
RECURSIVE Split(_, _)
Split(s, sep) ==
    LET hits == {k \in 1..Len(s) : s[k] = sep}
    IN  IF hits = {} THEN <<s>>
        ELSE <<SubSeq(s, 1, Min(hits) - 1)>> \o Split(From(s, Min(hits) + 1), sep)

\* str.split('\n\n'): non-overlapping separators, leftmost first
RECURSIVE SplitBlank(_)
SplitBlank(s) ==
    LET hits == {k \in 1..(Len(s) - 1) : s[k] = "\n" /\ s[k + 1] = "\n"}
    IN  IF hits = {} THEN <<s>>
        ELSE <<SubSeq(s, 1, Min(hits) - 1)>> \o SplitBlank(From(s, Min(hits) + 2))

\* str(i) for 0 <= i <= 99
DigitChar == <<"0", "1", "2", "3", "4", "5", "6", "7", "8", "9">>

Digits(i) ==
    IF i < 10 THEN <<DigitChar[i + 1]>>
    ELSE <<DigitChar[(i \div 10) + 1], DigitChar[(i % 10) + 1]>>

\* regex $ without re.MULTILINE: the end, or just before a final newline
DollarAt(s, q) == q = Len(s) + 1 \/ (q = Len(s) /\ s[q] = "\n")

\* regex ^ with re.MULTILINE
LineStart(s, p) == p = 1 \/ (p > 1 /\ p <= Len(s) + 1 /\ s[p - 1] = "\n")

(***************************************************************************)
(* Canonical titles                                                        *)
(***************************************************************************)
\* range(1, 17) visits the ordinals 1..NumSections
NumSections == 16

\* the list of create_table_of_contents
toc_entries ==
    << "Introduction",
       "Goals and Objectives",
       "User Personas and Roles",
       "Functional Requirements",
       "Non-Functional Requirements",
       "User Interface (UI) / User Experience (UX) Considerations",
       "Data Requirements",
       "System Architecture & Technical Considerations",
       "Release Criteria & Success Metrics",
       "Timeline & Milestones",
       "Team Structure",
       "User Stories",
       "Cost Estimation",
       "Open Issues & Future Considerations",
       "Appendix",
       "Points Requiring Further Clarification" >>

\* the dictionary of get_default_section_title, keyed by ordinal
titles ==
    << "Introduction",
       "Goals and Objectives",
       "User Personas and Roles",
       "Functional Requirements",
       "Non-Functional Requirements",
       "User Interface (UI) / User Experience (UX) Considerations",
       "Data Requirements",
       "System Architecture & Technical Considerations",
       "Release Criteria & Success Metrics",
       "Timeline & Milestones",
       "Team Structure",
       "User Stories",
       "Cost Estimation",
       "Open Issues & Future Considerations",
       "Appendix",
       "Points Requiring Further Clarification" >>

get_default_section_title(n) ==
    IF n \in DOMAIN titles THEN <<titles[n]>> ELSE <<"Section ">> \o Digits(n)

NoContent == "No content provided for this section."

PRD == "Product Requirements Document"

DefaultProjectName == <<"Project Requirements Document">>

(***************************************************************************)
(* Flowables                                                               *)
(***************************************************************************)
Paragraph(text, style) ==
    [type |-> "Paragraph", style |-> style, text |-> text, items |-> <<>>, rows |-> <<>>]

Spacer ==
    [type |-> "Spacer", style |-> "", text |-> <<>>, items |-> <<>>, rows |-> <<>>]

PageBreak ==
    [type |-> "PageBreak", style |-> "", text |-> <<>>, items |-> <<>>, rows |-> <<>>]

\* ListFlowable of ListItem(Paragraph(text, bullet_style)), one per item
ListFlowable(items) ==
    [type |-> "ListFlowable", style |-> "bullet", text |-> <<>>, items |-> items, rows |-> <<>>]

Table(rows) ==
    [type |-> "Table", style |-> "", text |-> <<>>, items |-> <<>>, rows |-> rows]

(***************************************************************************)
(* extract_project_name                                                    *)
(***************************************************************************)
\* Where group 1 of  Product Requirements Document:?\s*([^\n]+)  starts when
\* the phrase is matched at p, or 0 when the pattern fails at p.  The engine
\* tries the colon taken before the colon left, and for each the longest
\* run of whitespace before the shorter ones.
NameGroupStart(s, p) ==
    LET Starts(a) == {w \in a..WsEnd(s, a) : w <= Len(s) /\ s[w] # "\n"}
        withColon == IF p + 1 <= Len(s) /\ s[p + 1] = ":" THEN Starts(p + 2) ELSE {}
        noColon   == Starts(p + 1)
    IN  IF withColon # {} THEN Max(withColon)
        ELSE IF noColon # {} THEN Max(noColon)
        ELSE 0

\* [^\n]+ is greedy: it runs to the end of the line
LineEnd(s, g) ==
    Min({q \in g..(Len(s) + 1) : q = Len(s) + 1 \/ s[q] = "\n"})

extract_project_name(s) ==
    LET hits == {p \in 1..Len(s) : s[p] = PRD /\ NameGroupStart(s, p) # 0}
    IN  IF hits = {} THEN DefaultProjectName
        ELSE LET g == NameGroupStart(s, Min(hits))
             IN  Strip(SubSeq(s, g, LineEnd(s, g) - 1))

(***************************************************************************)
(* parse_and_add_content: section extraction                               *)
(***************************************************************************)
\* i\.\s+ matches at p (as a pattern prefix or as a lookahead)
MarkerAt(s, p, i) ==
    LET d == Digits(i) \o <<".">>
    IN  /\ MatchLit(s, p, d)
        /\ p + Len(d) <= Len(s)
        /\ s[p + Len(d)] \in WS

\* the successor ordinal the lookahead of section i names
Successor(i) == i + 1

\* where the lazy (.*?) started at `from` stops: the first position at which
\* the lookahead (?={i+1}\.\s+|$) holds
Boundary(s, from, i) ==
    Min({q \in from..(Len(s) + 1) : MarkerAt(s, q, Successor(i)) \/ DollarAt(s, q)})

\* i\.\s+<canonical title> matches at p
StrictAt(s, p, i) ==
    /\ MarkerAt(s, p, i)
    /\ MatchLit(s, WsEnd(s, p + Len(Digits(i)) + 1), get_default_section_title(i))

StrictHits(s, i) == {p \in 1..Len(s) : StrictAt(s, p, i)}

LooseHits(s, i) == {p \in 1..Len(s) : MarkerAt(s, p, i)}

Placeholder(i) ==
    Digits(i) \o <<".", " ">> \o get_default_section_title(i) \o <<"\n", "\n", NoContent>>

\* sections[str(i)] as the first loop of parse_and_add_content sets it
SectionRaw(s, i) ==
    IF StrictHits(s, i) # {}
    THEN LET p == Min(StrictHits(s, i))
             e == WsEnd(s, p + Len(Digits(i)) + 1) + Len(get_default_section_title(i))
         IN  Digits(i) \o <<".", " ">> \o get_default_section_title(i)
                 \o SubSeq(s, e, Boundary(s, e, i) - 1)
    ELSE IF LooseHits(s, i) # {}
    THEN LET p == Min(LooseHits(s, i))
             a == WsEnd(s, p + Len(Digits(i)) + 1)
         IN  SubSeq(s, p, Boundary(s, a, i) - 1)
    ELSE Placeholder(i)

\* range(1, 16): the last ordinal is left out
OrdinalsShort == 1..(NumSections - 1)

\* range(1, 17)
Ordinals == 1..NumSections

ExtractAll(s) == [i \in Ordinals |-> SectionRaw(s, i)]

\* re.match(rf'{section_num}\.\s+(.*?)(?=\n|$)', section_content), else the default
SectionTitle(sc, i) ==
    IF MarkerAt(sc, 1, i)
    THEN LET b == WsEnd(sc, Len(Digits(i)) + 2)
         IN  SubSeq(sc, b, LineEnd(sc, b) - 1)
    ELSE get_default_section_title(i)

\* section_content.split('\n', 1)[1].strip(), or the empty text when there is
\* no second line
SectionBody(sc) ==
    LET hits == {k \in 1..Len(sc) : sc[k] = "\n"}
    IN  IF hits = {} THEN <<>> ELSE Strip(From(sc, Min(hits) + 1))

(***************************************************************************)
(* add_content_with_formatting                                             *)
(***************************************************************************)
\* re.search(r'^\s*[\-\*]\s', content, re.MULTILINE)
HasBullet(s) ==
    \E p \in 1..Len(s) :
        /\ LineStart(s, p)
        /\ LET b == WsEnd(s, p)
           IN  /\ b + 1 <= Len(s)
               /\ s[b] \in {"-", "*"}
               /\ s[b + 1] \in WS

\* line.startswith('-') or line.startswith('*')
IsBulletLine(line) == Len(line) > 0 /\ line[1] \in {"-", "*"}

\* one Paragraph per buffered line
RECURSIVE Paragraphs(_)
Paragraphs(ps) ==
    IF ps = <<>> THEN <<>>
    ELSE <<Paragraph(Head(ps), "normal")>> \o Paragraphs(Tail(ps))

\* every pending bullet item becomes a list of its own
FlushItemsOneEach(items) == [k \in 1..Len(items) |-> ListFlowable(<<items[k]>>)]

\* what flushing the pending bullet items appends
FlushItems(items) == IF items = <<>> THEN <<>> ELSE <<ListFlowable(items)>>

\* the loop over content.split('\n') of the bullet branch: `out` is what has
\* been appended to the story so far, `items` and `paragraphs` the buffers
RECURSIVE MixedLoop(_, _, _, _)
MixedLoop(lines, out, items, paragraphs) ==
    IF lines = <<>>
    THEN out \o FlushItems(items) \o Paragraphs(paragraphs)
    ELSE LET line == Strip(Head(lines))
         IN  IF line = <<>>
             THEN MixedLoop(Tail(lines), out, items, paragraphs)
             ELSE IF IsBulletLine(line)
             THEN MixedLoop(Tail(lines), out \o Paragraphs(paragraphs),
                            Append(items, Strip(Tail(line))), <<>>)
             ELSE MixedLoop(Tail(lines), out \o FlushItems(items),
                            <<>>, Append(paragraphs, line))

MixedBlocks(s) == MixedLoop(Split(s, "\n"), <<>>, <<>>, <<>>)

\* the else branch: one Paragraph per non-blank chunk of content.split('\n\n')
RECURSIVE PlainLoop(_)
PlainLoop(chunks) ==
    IF chunks = <<>> THEN <<>>
    ELSE (IF Strip(Head(chunks)) # <<>>
          THEN <<Paragraph(Strip(Head(chunks)), "normal")>> ELSE <<>>)
         \o PlainLoop(Tail(chunks))

PlainBlocks(s) == PlainLoop(SplitBlank(s))

\* the flowables add_content_with_formatting(content) appends to the story
add_content_with_formatting(s) ==
    IF HasBullet(s) THEN MixedBlocks(s) ELSE PlainBlocks(s)

(***************************************************************************)
(* add_functional_requirements_table                                       *)
(***************************************************************************)
header_row == << <<"ID">>, <<"Requirement Description">>, <<"Priority">>, <<"Dependencies">> >>

placeholder_row == << <<"F", "R", "0", "1">>, <<"Placeholder requirement">>, <<"High">>, <<"-">> >>

\* the number of cells a line must split into to be kept, and the number kept
MinCells == 4

\* [cell.strip() for cell in line.split('|')]
Cells(line) ==
    LET raw == Split(line, "|")
    IN  [k \in 1..Len(raw) |-> Strip(raw[k])]

\* line.startswith("FR") and "|" in line
IsDataLine(line) ==
    /\ MatchLit(line, 1, <<"F", "R">>)
    /\ \E k \in 1..Len(line) : line[k] = "|"

\* the rows the loop over content.split('\n') appends after the header
RECURSIVE DataRows(_)
DataRows(lines) ==
    IF lines = <<>> THEN <<>>
    ELSE LET line == Strip(Head(lines))
         IN  (IF IsDataLine(line) /\ Len(Cells(line)) >= MinCells
              THEN <<SubSeq(Cells(line), 1, MinCells)>> ELSE <<>>)
             \o DataRows(Tail(lines))

\* the placeholder row is appended whether or not a data row was found
TableRowsAlwaysPlaceholder(s) ==
    Append(<<header_row>> \o DataRows(Split(s, "\n")), placeholder_row)

TableRows(s) ==
    LET rows == <<header_row>> \o DataRows(Split(s, "\n"))
    IN  IF Len(rows) = 1 THEN Append(rows, placeholder_row) ELSE rows

\* the flowable add_functional_requirements_table(content) appends
add_functional_requirements_table(s) == <<Table(TableRows(s))>>

(***************************************************************************)
(* generate, step by step                                                  *)
(***************************************************************************)
\* datetime.now().strftime("%B %d, %Y"): one token, whatever the day
Today == "DATE"

\* the flowables create_cover_page(project_name) appends
CoverBlocks(name) ==
    << Paragraph(<<PRD, ":">>, "title"),
       Paragraph(name, "subtitle"),
       Spacer,
       Paragraph(<<"Generated on: ", Today>>, "normal"),
       Spacer >>

\* the flowables create_table_of_contents() appends
TocBlocks ==
    << Paragraph(<<"Table of Contents">>, "subtitle"), Spacer >>
    \o [i \in 1..Len(toc_entries) |->
            Paragraph(Digits(i) \o <<".", " ", toc_entries[i]>>, "toc")]

\* the flowable the second loop of parse_and_add_content appends first
Heading(i, sc) == Paragraph(Digits(i) \o <<".", " ">> \o SectionTitle(sc, i), "heading")

\* what the second loop appends between a section's heading and its spacer
SectionContent(i, sc) ==
    IF SectionBody(sc) # <<>> THEN add_content_with_formatting(SectionBody(sc)) ELSE <<>>

\* the spacer is appended before the section's content
SectionBlocksSpacerFirst(i, sc) == <<Heading(i, sc), Spacer>> \o SectionContent(i, sc)

\* one iteration of the second loop of parse_and_add_content
SectionBlocks(i, sc) == <<Heading(i, sc)>> \o SectionContent(i, sc) \o <<Spacer>>

\* the keys of sorted(sections.keys(), key=int) not yet visited
Pending == {k \in DOMAIN sections : k > section_num}

\* generate: extract_project_name and create_cover_page
CreateCoverPage ==
    /\ pc = "start"
    /\ project_name' = extract_project_name(content)
    /\ story' = story \o CoverBlocks(project_name')
    /\ pc' = "toc"
    /\ UNCHANGED <<content, sections, section_num, rendered, calls>>

\* generate: create_table_of_contents
CreateTableOfContents ==
    /\ pc = "toc"
    /\ story' = story \o TocBlocks
    /\ pc' = "break"
    /\ UNCHANGED <<content, sections, section_num, project_name, rendered, calls>>

\* generate: self.story.append(PageBreak())
AddPageBreak ==
    /\ pc = "break"
    /\ story' = Append(story, PageBreak)
    /\ pc' = "parse"
    /\ UNCHANGED <<content, sections, section_num, project_name, rendered, calls>>

\* parse_and_add_content: the first loop, which fills `sections`
ExtractSections ==
    /\ pc = "parse"
    /\ sections' = ExtractAll(content)
    /\ section_num' = 0
    /\ pc' = "sections"
    /\ UNCHANGED <<content, story, project_name, rendered, calls>>

\* parse_and_add_content: one iteration of the second loop
ProcessSection ==
    /\ pc = "sections"
    /\ Pending # {}
    /\ section_num' = Min(Pending)
    /\ story' = story \o SectionBlocks(section_num', sections[section_num'])
    /\ UNCHANGED <<content, pc, sections, project_name, rendered, calls>>

\* parse_and_add_content returns when the second loop is exhausted
EndSections ==
    /\ pc = "sections"
    /\ Pending = {}
    /\ pc' = "build"
    /\ UNCHANGED <<content, story, sections, section_num, project_name, rendered, calls>>

\* generate: self.doc.build(self.story).  The renderer is an external library
\* that is handed the list object itself: it may leave the list as it is or
\* consume its elements while laying them out.
Build ==
    /\ pc = "build"
    /\ rendered' = story
    /\ story' \in {story, <<>>}
    /\ pc' = "done"
    /\ calls' = calls + 1
    /\ UNCHANGED <<content, sections, section_num, project_name>>

\* a further generate(content) on the same PDFGenerator
GenerateAgain(c) ==
    /\ pc = "done"
    /\ content' = c
    /\ pc' = "start"
    /\ UNCHANGED <<story, sections, section_num, project_name, rendered, calls>>

GenerateStep ==
    \/ CreateCoverPage
    \/ CreateTableOfContents
    \/ AddPageBreak
    \/ ExtractSections
    \/ ProcessSection
    \/ EndSections
    \/ Build

\* PDFGenerator.__init__ (self.story = []) followed by generate(c)
NewInstance(c) ==
    /\ content = c
    /\ story = <<>>
    /\ pc = "start"
    /\ sections = <<>>
    /\ section_num = 0
    /\ project_name = <<>>
    /\ rendered = <<>>
    /\ calls = 0

(***************************************************************************)
(* Inputs                                                                  *)
(***************************************************************************)
\* "i. <canonical title>" on a line of its own
CanonicalHeader(i) == Digits(i) \o <<".", " ">> \o get_default_section_title(i) \o <<"\n">>

\* the heading of section i with another wording
RewordedHeader(i) == Digits(i) \o <<".", " ", "Overview", "\n">>

BodyKinds == {"plain", "paras", "bullets", "numbered", "rows", "empty"}

\* a section body; "numbered" has a list item that carries the next ordinal
BodyText(kind, i) ==
    CASE kind = "plain"    -> <<"x">>
      [] kind = "paras"    -> <<"x", "\n", "\n", "y">>
      [] kind = "bullets"  -> <<"x", "\n", "-", " ", "a", "\n", "*", " ", "b", "\n", "y">>
      [] kind = "numbered" -> <<"x", "\n">> \o Digits(i + 1) \o <<".", " ", "y">>
      [] kind = "rows"     -> <<"F", "R", "1", "|", "a", "|", "b", "|", "c">>
      [] kind = "empty"    -> <<>>

HeaderForms == {"absent", "reworded"}

\* sections i..16 of a document in which section `alt` has no heading or a
\* reworded one (alt = 0: none has) and section `var` has a body of `kind`
RECURSIVE DocFrom(_, _, _, _, _)
DocFrom(i, alt, form, var, kind) ==
    IF i > NumSections THEN <<>>
    ELSE (IF i = alt /\ form = "absent" THEN <<>>
          ELSE (IF i = alt THEN RewordedHeader(i) ELSE CanonicalHeader(i))
               \o (IF i = var THEN BodyText(kind, i) ELSE BodyText("plain", i))
               \o <<"\n">>)
         \o DocFrom(i + 1, alt, form, var, kind)

TitleLine == <<PRD, ":", " ", "Acme", "\n">>

Docs ==
    {TitleLine \o DocFrom(1, alt, form, var, kind) :
        alt \in 0..NumSections, form \in HeaderForms,
        var \in 1..NumSections, kind \in BodyKinds}

\* texts with no numbered section at all
Unstructured == {<<>>, <<"x", "\n", "y">>}

\* the documents a reused PDFGenerator is given
ReuseDocs ==
    { <<>>,
      TitleLine \o DocFrom(1, 0, "absent", 1, "plain"),
      TitleLine \o DocFrom(1, 2, "absent", 3, "bullets") }

\* how many generate calls one PDFGenerator gets in SpecReuse
MaxCalls == 2

\* join lines with "\n"
RECURSIVE Join(_)
Join(lines) ==
    IF lines = <<>> THEN <<>>
    ELSE IF Len(lines) = 1 THEN lines[1]
    ELSE lines[1] \o <<"\n">> \o Join(Tail(lines))

\* every sequence of at most n elements of S
SeqsUpTo(S, n) == UNION {[1..k -> S] : k \in 0..n}

\* the lines section bodies are made of
BodyLines ==
    { <<"a">>, <<"b">>, <<"-", " ", "c">>, <<"*", " ", "d">>,
      <<" ", "-", "e", " ">>, <<"-">>, <<" ">>, <<>> }

MaxBodyLines == 4

\* the lines functional-requirement bodies are made of
TableLines ==
    { <<"F", "R", "1", "|", "a", "|", "b", "|", "c">>,
      <<" ", "F", "R", "2", " ", "|", " ", "a", " ", "|", "b", "|", "c", "|", "d", " ">>,
      <<"F", "R", "3", "|", "a", "|", "b">>,
      <<"F", "R", "|", "|", "|">>,
      <<"F", "R", "4">>,
      <<"I", "D", "|", "x", "|", "y", "|", "z">>,
      <<"x", "|", "F", "R", "|", "a", "|", "b">>,
      <<>> }

MaxTableLines == 3

\* the characters extract_project_name tells apart
NameAlphabet == {PRD, ":", " ", "\n", "a"}

MaxNameLen == 4

(***************************************************************************)
(* Specifications                                                          *)
(***************************************************************************)
\* one generate(content) on a new PDFGenerator
Init == \E c \in Docs \cup Unstructured : NewInstance(c)

Next == GenerateStep

Spec == Init /\ [][Next]_vars

\* a PDFGenerator that is given several documents in turn
InitReuse == \E c \in ReuseDocs : NewInstance(c)

NextReuse ==
    \/ GenerateStep
    \/ \E c \in ReuseDocs : calls < MaxCalls /\ GenerateAgain(c)

SpecReuse == InitReuse /\ [][NextReuse]_vars

\* extract_project_name applied to a text
InitName == \E c \in SeqsUpTo(NameAlphabet, MaxNameLen) : NewInstance(c)

ExtractName ==
    /\ pc = "start"
    /\ project_name' = extract_project_name(content)
    /\ pc' = "named"
    /\ UNCHANGED <<content, story, sections, section_num, rendered, calls>>

NextName == ExtractName

SpecName == InitName /\ [][NextName]_vars

\* add_content_with_formatting applied to a body
InitFormat == \E ls \in SeqsUpTo(BodyLines, MaxBodyLines) : NewInstance(Join(ls))

FormatContent ==
    /\ pc = "start"
    /\ story' = story \o add_content_with_formatting(content)
    /\ pc' = "formatted"
    /\ UNCHANGED <<content, sections, section_num, project_name, rendered, calls>>

NextFormat == FormatContent

SpecFormat == InitFormat /\ [][NextFormat]_vars

\* add_functional_requirements_table applied to a body
InitTable == \E ls \in SeqsUpTo(TableLines, MaxTableLines) : NewInstance(Join(ls))

AddTable ==
    /\ pc = "start"
    /\ story' = story \o add_functional_requirements_table(content)
    /\ pc' = "tabled"
    /\ UNCHANGED <<content, sections, section_num, project_name, rendered, calls>>

NextTable == AddTable

SpecTable == InitTable /\ [][NextTable]_vars

(***************************************************************************)
(* Reading a story                                                         *)
(***************************************************************************)
IsPrefix(a, b) == Len(a) <= Len(b) /\ SubSeq(b, 1, Len(a)) = a

\* the positions of the section headings of a story
HeadingIdx(st) == {k \in DOMAIN st : st[k].style = "heading"}

\* the position of the n-th section heading of a story (0: there is none)
HeadingAt(st, n) ==
    LET hit == {h \in HeadingIdx(st) : Cardinality({j \in HeadingIdx(st) : j <= h}) = n}
    IN  IF hit = {} THEN 0 ELSE Min(hit)

\* the positions from the n-th heading up to the next heading or the end
Slice(st, n) ==
    {k \in DOMAIN st :
        /\ HeadingAt(st, n) # 0
        /\ k >= HeadingAt(st, n)
        /\ (HeadingAt(st, n + 1) # 0 => k < HeadingAt(st, n + 1))}

CountType(st, t) == Cardinality({k \in DOMAIN st : st[k].type = t})

CountStyle(st, y) == Cardinality({k \in DOMAIN st : st[k].style = y})

\* heading n of the story is numbered n
HeadingNumbered(st, n) ==
    /\ HeadingAt(st, n) # 0
    /\ MatchLit(st[HeadingAt(st, n)].text, 1, Digits(n) \o <<".", " ">>)

(***************************************************************************)
(* C1                                                                      *)
(***************************************************************************)
\* C1: whatever the input text, the extraction result of
\* parse_and_add_content has exactly the keys 1..16, and the call appends
\* exactly 16 section headings to the story, the n-th numbered n.
C1_SixteenSections ==
    /\ pc \in {"sections", "build"} => DOMAIN sections = 1..16
    /\ pc = "build" =>
          /\ Cardinality(HeadingIdx(story)) = 16
          /\ \A n \in 1..16 : HeadingNumbered(story, n)

\* the empty text has gone through parse_and_add_content
C1_Witness ==
    /\ pc = "build"
    /\ content = <<>>
    /\ Cardinality(HeadingIdx(story)) = 16

(***************************************************************************)
(* C2                                                                      *)
(***************************************************************************)
\* a line of the text starts with "i." and whitespace: a heading for ordinal i
HeadingPresent(s, i) == \E p \in 1..Len(s) : LineStart(s, p) /\ MarkerAt(s, p, i)

\* C2: a section whose heading is nowhere in the input is extracted with its
\* canonical default title and the body "No content provided for this
\* section.", and the result still has 16 sections.
C2_MissingGivesPlaceholder ==
    pc = "sections" =>
        /\ DOMAIN sections = 1..16
        /\ \A i \in 1..16 :
              ~HeadingPresent(content, i) =>
                  /\ SectionTitle(sections[i], i) = <<titles[i]>>
                  /\ SectionBody(sections[i]) = <<NoContent>>

(***************************************************************************)
(* C3                                                                      *)
(***************************************************************************)
\* where the line "i. <canonical title>" stands in the text
HeaderLines(s, i) ==
    {p \in 1..Len(s) : LineStart(s, p) /\ MatchLit(s, p, CanonicalHeader(i))}

\* all 16 canonical headers are there, once each, in ascending order
WellFormed(s) ==
    /\ \A i \in 1..16 : Cardinality(HeaderLines(s, i)) = 1
    /\ \A i \in 1..15 : Min(HeaderLines(s, i)) < Min(HeaderLines(s, i + 1))

\* the text between the header of i and the header of i+1 (the end for 16)
Between(s, i) ==
    SubSeq(s, Min(HeaderLines(s, i)) + Len(CanonicalHeader(i)),
           IF i < 16 THEN Min(HeaderLines(s, i + 1)) - 1 ELSE Len(s))

\* C3: in a text with all 16 canonical headers in ascending order, section i
\* is extracted with the canonical title of i and with the trimmed text
\* between header i and header i+1 as its body, whatever that text is.
C3_BodiesBetweenHeaders ==
    (pc = "sections" /\ WellFormed(content)) =>
        \A i \in 1..16 :
            /\ SectionTitle(sections[i], i) = <<titles[i]>>
            /\ SectionBody(sections[i]) = Strip(Between(content, i))

(***************************************************************************)
(* C10                                                                     *)
(***************************************************************************)
\* where the pattern of section 16 (strict first, then loose) matches
Match16(s) ==
    IF StrictHits(s, 16) # {} THEN Min(StrictHits(s, 16))
    ELSE IF LooseHits(s, 16) # {} THEN Min(LooseHits(s, 16))
    ELSE 0

\* the input after the line on which section 16 is matched
AfterTitleLine16(s) == From(s, LineEnd(s, Match16(s)) + 1)

\* C10: when section 16 is matched its body is the trimmed remainder of the
\* input after its title line, whatever follows ("17. " markers included).
C10_LastSectionRunsToEnd ==
    (pc = "sections" /\ Match16(content) # 0) =>
        SectionBody(sections[16]) = Strip(AfterTitleLine16(content))

(***************************************************************************)
(* C9                                                                      *)
(***************************************************************************)
\* C9: in the story generate builds, the blocks of section 4 hold the Table
\* that add_functional_requirements_table makes of the section's body, and
\* the blocks of no other section hold a Table.
C9_TableInSectionFour ==
    pc = "build" =>
        /\ \E k \in Slice(story, 4) :
              story[k] = Table(TableRows(SectionBody(sections[4])))
        /\ \A n \in (1..16) \ {4} : \A k \in Slice(story, n) : story[k].type # "Table"

(***************************************************************************)
(* C7                                                                      *)
(***************************************************************************)
\* the positions after the PageBreak at 24: the section part of a story
SectionPart(st) == {k \in DOMAIN st : k > 24}

\* cover, table of contents, one PageBreak, then per ordinal a heading, its
\* content and a Spacer
FinalOrder(st) ==
    /\ Len(st) >= 24
    /\ <<st[1].style, st[2].style, st[3].type, st[4].style, st[5].type>>
           = <<"title", "subtitle", "Spacer", "normal", "Spacer">>
    /\ st[1].text = <<PRD, ":">>
    /\ st[6] = Paragraph(<<"Table of Contents">>, "subtitle")
    /\ st[7].type = "Spacer"
    /\ \A i \in 1..16 : st[7 + i] = Paragraph(Digits(i) \o <<".", " ", titles[i]>>, "toc")
    /\ st[24].type = "PageBreak"
    /\ CountType(st, "PageBreak") = 1
    /\ HeadingIdx(st) \subseteq SectionPart(st)
    /\ Cardinality(HeadingIdx(st)) = 16
    /\ \A n \in 1..16 : HeadingNumbered(st, n)
    /\ HeadingAt(st, 1) = 25
    /\ st[Len(st)].type = "Spacer"
    /\ Cardinality({k \in SectionPart(st) : st[k].type = "Spacer"}) = 16
    /\ \A k \in SectionPart(st) :
          st[k].type = "Spacer" => (k = Len(st) \/ st[k + 1].style = "heading")

\* the story while generate runs, and what the renderer is handed
C7_Order ==
    /\ pc = "build" => FinalOrder(story)
    /\ pc = "done" => FinalOrder(rendered)
    /\ pc # "done" => rendered = <<>>

\* before the renderer is called a step only appends, and the renderer is
\* handed what has been appended
C7_AppendStep ==
    /\ pc # "build" => IsPrefix(story, story')
    /\ pc = "build" => rendered' = story

\* C7: during one generate call on a new instance the story only grows by
\* appending, the renderer is called after every block is appended, and the
\* story it is handed is the cover, the table of contents with the 16
\* canonical titles numbered 1..16, one PageBreak, and for ordinal 1..16 in
\* ascending order a heading, the section's content and a Spacer.
C7_AppendOnlyInOrder == []C7_Order /\ [][C7_AppendStep]_vars

\* a document with bullets and paragraphs has been rendered
C7_Witness ==
    /\ pc = "done"
    /\ CountType(rendered, "ListFlowable") = 1
    /\ Len(rendered) > 24 + 3 * 16

(***************************************************************************)
(* C8                                                                      *)
(***************************************************************************)
\* C8: whatever was generated before on the same PDFGenerator, the block
\* sequence a generate call hands to the renderer holds the blocks of that
\* call alone: one cover, one table of contents, one PageBreak and 16
\* section headings.
C8_FreshStoryPerCall ==
    pc = "done" =>
        /\ CountStyle(rendered, "title") = 1
        /\ CountStyle(rendered, "toc") = 16
        /\ CountType(rendered, "PageBreak") = 1
        /\ CountStyle(rendered, "heading") = 16

(***************************************************************************)
(* C4                                                                      *)
(***************************************************************************)
\* what follows the phrase at p, and a colon if one is next, on p's line
Trailing(s, p) ==
    LET a == IF p + 1 <= Len(s) /\ s[p + 1] = ":" THEN p + 2 ELSE p + 1
    IN  Strip(SubSeq(s, a, LineEnd(s, a) - 1))

\* the occurrences of the phrase that have a title after them on their line
TitledLines(s) == {p \in 1..Len(s) : s[p] = PRD /\ Trailing(s, p) # <<>>}

\* C4: extract_project_name returns the trimmed text after "Product
\* Requirements Document" and an optional colon on the same line when there
\* is such a line, and "Project Requirements Document" in every other case:
\* never text of a later line, never the colon.
C4_TitleFromSameLine ==
    pc = "named" =>
        project_name = IF TitledLines(content) = {} THEN DefaultProjectName
                       ELSE Trailing(content, Min(TitledLines(content)))

(***************************************************************************)
(* C5                                                                      *)
(***************************************************************************)
NotEmpty(line) == line # <<>>

\* the trimmed non-blank lines of a body, in input order
NonBlankLines(s) ==
    LET ls == Split(s, "\n")
    IN  SelectSeq([k \in 1..Len(ls) |-> Strip(ls[k])], NotEmpty)

\* what a trimmed non-blank line is to become
LineEntry(line) ==
    IF line[1] \in {"-", "*"}
    THEN [bullet |-> TRUE, text |-> Strip(Tail(line))]
    ELSE [bullet |-> FALSE, text |-> line]

\* the lines a sequence of blocks shows, in order: one per Paragraph and one
\* per item of a ListFlowable
RECURSIVE Shown(_)
Shown(st) ==
    IF st = <<>> THEN <<>>
    ELSE (IF st[1].type = "ListFlowable"
          THEN [k \in 1..Len(st[1].items) |-> [bullet |-> TRUE, text |-> st[1].items[k]]]
          ELSE <<[bullet |-> FALSE, text |-> st[1].text]>>)
         \o Shown(Tail(st))

\* C5: in mixed bullet/paragraph mode blank lines are skipped, every other
\* line shows up exactly once and in input order, a non-bullet line as a
\* Paragraph of its own, a bullet line (marker stripped, text trimmed) as an
\* item of a ListFlowable, and every maximal run of bullet lines is one
\* ListFlowable: no list is empty and no two lists are adjacent.
C5_MixedModeBlocks ==
    (pc = "formatted" /\ HasBullet(content)) =>
        /\ \A k \in DOMAIN story : story[k].type \in {"Paragraph", "ListFlowable"}
        /\ Shown(story) =
              [k \in 1..Len(NonBlankLines(content)) |-> LineEntry(NonBlankLines(content)[k])]
        /\ \A k \in DOMAIN story :
              story[k].type = "ListFlowable" =>
                  /\ story[k].items # <<>>
                  /\ (k < Len(story) => story[k + 1].type = "Paragraph")

\* "a", "- c", "* d", "b" has become a Paragraph, a list of two, a Paragraph
C5_Witness ==
    /\ pc = "formatted"
    /\ HasBullet(content)
    /\ story = << Paragraph(<<"a">>, "normal"),
                  ListFlowable(<< <<"c">>, <<"d">> >>),
                  Paragraph(<<"b">>, "normal") >>

(***************************************************************************)
(* C6                                                                      *)
(***************************************************************************)
\* a trimmed line that is to give a row
IsRowLine(line) ==
    /\ Len(line) >= 2 /\ line[1] = "F" /\ line[2] = "R"
    /\ Len(Split(line, "|")) >= 4

\* the trimmed lines of a body that are to give a row, in input order
RowLines(s) ==
    LET ls == Split(s, "\n")
    IN  SelectSeq([k \in 1..Len(ls) |-> Strip(ls[k])], IsRowLine)

\* C6: add_functional_requirements_table appends exactly one Table; its row
\* 0 is the fixed header; then come, in input order, the first four trimmed
\* cells of every line that starts with "FR" and splits on "|" into at least
\* 4 cells (a line starting with "ID" gives no row); the placeholder row is
\* there, once and last, exactly when no line gave a row; so there are at
\* least 2 rows, each of 4 cells.
C6_TableRows ==
    pc = "tabled" =>
        /\ Len(story) = 1
        /\ story[1].type = "Table"
        /\ LET rows == story[1].rows
               kept == RowLines(content)
           IN  /\ rows[1] = << <<"ID">>, <<"Requirement Description">>,
                               <<"Priority">>, <<"Dependencies">> >>
               /\ Len(rows) >= 2
               /\ \A r \in DOMAIN rows : Len(rows[r]) = 4
               /\ kept # <<>> =>
                     /\ Len(rows) = 1 + Len(kept)
                     /\ \A k \in DOMAIN kept :
                           \A c \in 1..4 : rows[1 + k][c] = Strip(Split(kept[k], "|")[c])
               /\ kept = <<>> =>
                     rows = <<rows[1], << <<"F", "R", "0", "1">>, <<"Placeholder requirement">>,
                                          <<"High">>, <<"-">> >> >>

\* an "ID" line and two "FR" lines have given a header and two rows
C6_Witness ==
    /\ pc = "tabled"
    /\ \E k \in 1..Len(content) : MatchLit(content, k, <<"I", "D", "|">>)
    /\ Len(story) = 1
    /\ Len(story[1].rows) = 3
    /\ story[1].rows[3] = << <<"F", "R", "2">>, <<"a">>, <<"b">>, <<"c">> >>

====
